---- MODULE Spec2Model ----
(***************************************************************************)
(* Model of imgur-auto-delete (src/main.py): the orchestration loop of     *)
(* main(), the per-kind deletion drivers of delete_one() and               *)
(* delete_post_container(), safe_click(), and the link extractor           *)
(* find_post_links_sorted().                                               *)
(*                                                                         *)
(* Texts (button labels, aria-labels) are sequences of words; hrefs are    *)
(* sequences of characters.  The page under automation is a sequence of    *)
(* rendered elements in document order; what the site renders after a      *)
(* navigation or a real click is the environment's choice.                 *)
(***************************************************************************)
EXTENDS Integers, Sequences, FiniteSets, TLC

\* ------------------------------------------------------------------ bounds
MaxDom == 1
MaxCap == 2
MaxHeight == 2
MaxAnchors == 2
MaxGrid == 3

\* ------------------------------------------------------- text primitives
\* str.lower() on one word of the vocabulary
Lower(w) ==
  CASE w = "Delete" -> "delete"
    [] w = "Post" -> "post"
    [] w = "Only" -> "only"
    [] w = "Yes," -> "yes,"
    [] w = "It" -> "it"
    [] w = "Images" -> "images"
    [] w = "Cancel" -> "cancel"
    [] w = "Remove" -> "remove"
    [] w = "Menu" -> "menu"
    [] w = "More" -> "more"
    [] OTHER -> w

LowerSeq(s) == [k \in DOMAIN s |-> Lower(s[k])]

\* needle occurs in hay as a contiguous run (Python `in`, CSS *=, has-text)
Contains(hay, needle) ==
  \E k \in 0..(Len(hay) - Len(needle)) :
     SubSeq(hay, k + 1, k + Len(needle)) = needle

ContainsCI(hay, needle) == Contains(LowerSeq(hay), LowerSeq(needle))

StartsWith(s, p) == Len(s) >= Len(p) /\ SubSeq(s, 1, Len(p)) = p

\* ------------------------------------------------------------- elements
\* A rendered element: tag, ARIA role, explicit role attribute, text,
\* aria-label, whether it sits inside a [role=dialog], class keywords of
\* its descendants, its own class, and whether it is visible.
Elem(tag, role, rattr, text, aria, dlg, kids, cls, vis) ==
  [tag |-> tag, role |-> role, rattr |-> rattr, text |-> text, aria |-> aria,
   dlg |-> dlg, kids |-> kids, cls |-> cls, vis |-> vis]

E_DeleteImage == Elem("button", "button", "", <<"Delete", "image">>, <<>>, FALSE, {}, "", TRUE)
E_YesDeleteIt == Elem("button", "button", "", <<"Yes,", "Delete", "It">>, <<>>, TRUE, {}, "", TRUE)
E_Cancel == Elem("button", "button", "", <<"Cancel">>, <<>>, TRUE, {}, "", TRUE)
E_DeletePost == Elem("button", "button", "", <<"Delete", "post">>, <<>>, FALSE, {}, "", TRUE)
E_DeletePostOnly == Elem("button", "button", "", <<"Delete", "Post", "Only">>, <<>>, TRUE, {}, "", TRUE)
E_DeletePostAll == Elem("button", "button", "", <<"Delete", "Post", "and", "Images">>, <<>>, TRUE, {}, "", TRUE)
E_Dots == Elem("button", "button", "", <<"...">>, <<>>, FALSE, {"dots"}, "", TRUE)
E_MenuBtn == Elem("button", "button", "", <<>>, <<"Menu">>, FALSE, {}, "", TRUE)
E_DeleteFromAccount == Elem("button", "button", "", <<"Delete", "from", "account">>, <<>>, TRUE, {}, "DeleteImageDialog-confirm--accountRemove", TRUE)
E_RemoveFromPost == Elem("button", "button", "", <<"Remove", "from", "post">>, <<>>, TRUE, {}, "", TRUE)
E_MenuItemDelete == Elem("div", "menuitem", "menuitem", <<"Delete", "image">>, <<>>, FALSE, {}, "", TRUE)
E_HiddenDeleteImage == Elem("button", "button", "", <<"Delete", "image">>, <<>>, FALSE, {}, "", FALSE)

ElemPool ==
  {E_DeleteImage, E_YesDeleteIt, E_Cancel, E_DeletePost, E_DeletePostOnly,
   E_DeletePostAll, E_Dots, E_DeleteFromAccount}

\* pages of the site as the drivers expect them
P_ImageDialog == <<E_DeleteImage, E_YesDeleteIt, E_Cancel>>
P_HiddenFirst == <<E_HiddenDeleteImage, E_DeleteImage>>
P_AlbumPage == <<E_Dots, E_Dots, E_DeletePost>>
P_AlbumDialog == <<E_DeletePost, E_DeletePostAll, E_DeletePostOnly, E_Cancel>>
P_AlbumDialogAll == <<E_DeletePostAll, E_Cancel>>
P_OtherMenu == <<E_MenuBtn, E_MenuItemDelete>>
P_OtherDialog == <<E_RemoveFromPost, E_DeleteFromAccount>>
P_OtherAll == <<E_Dots, E_DeleteImage, E_DeleteFromAccount>>

ScenarioPages ==
  {P_ImageDialog, P_HiddenFirst, P_AlbumPage, P_AlbumDialog, P_AlbumDialogAll,
   P_OtherMenu, P_OtherDialog, P_OtherAll,
   <<E_MenuBtn>>, <<E_RemoveFromPost>>, <<E_MenuItemDelete>>, <<E_HiddenDeleteImage>>}

\* the pages the site may render: the scenario pages and every page of up to
\* MaxDom elements in document order
DomPool == ScenarioPages \cup UNION {[1..n -> ElemPool] : n \in 0..MaxDom}

\* accessible name used by get_by_role(name=...)
AccName(e) == IF e.aria # <<>> THEN e.aria ELSE e.text

\* ------------------------------------------------------------ selectors
\* page.locator('tag:has-text("...")'): case-insensitive substring of the text
HasText(tag, text) == [kind |-> "has_text", tag |-> tag, text |-> text, dlg |-> FALSE]
\* page.locator('[role="dialog"] tag:has-text("...")')
DlgHasText(tag, text) == [kind |-> "has_text", tag |-> tag, text |-> text, dlg |-> TRUE]
\* page.locator('text="..."'): exact, case-sensitive text
TextIs(text) == [kind |-> "text_is", text |-> text]
\* page.locator('[role="r"]:has-text("...")'): explicit role attribute
RoleAttrHasText(r, text) == [kind |-> "rattr_has_text", rattr |-> r, text |-> text, dlg |-> FALSE]
\* page.locator('[role="menu"] button:has-text("...")'): no element of the
\* vocabulary sits inside a [role=menu] container
InMenuHasText(text) == [kind |-> "in_menu", text |-> text]
\* page.locator('tag[aria-label*="..." i]')
AriaHas(tag, text) == [kind |-> "aria_has", tag |-> tag, text |-> text]
\* page.locator('tag:has([class*="k"])'), optionally under [role=dialog]
HasKid(tag, k, dlg) == [kind |-> "has_kid", tag |-> tag, k |-> k, dlg |-> dlg]
\* page.locator('button.cls')
HasClass(tag, c) == [kind |-> "has_class", tag |-> tag, cls |-> c]
\* page.locator('button[data-action="confirm"]'): no such attribute rendered
DataAction(v) == [kind |-> "data_action", v |-> v]
\* page.get_by_role(role, name="...") and name=re.compile("...", re.I):
\* both match the accessible name by case-insensitive substring
ByRole(role, name) == [kind |-> "by_role", role |-> role, name |-> name]

TagOk(tag, e) ==
  \/ tag = "*"
  \/ tag = "[any]"
  \/ tag = e.tag

Matches(sel, e) ==
  CASE sel.kind = "has_text" ->
         /\ TagOk(sel.tag, e)
         /\ ContainsCI(e.text, sel.text)
         /\ (sel.dlg => e.dlg)
         /\ (sel.tag = "*" => e.vis)
    [] sel.kind = "text_is" -> e.text = sel.text
    [] sel.kind = "rattr_has_text" ->
         /\ e.rattr = sel.rattr
         /\ ContainsCI(e.text, sel.text)
    [] sel.kind = "in_menu" -> FALSE
    [] sel.kind = "aria_has" ->
         /\ TagOk(sel.tag, e)
         /\ e.aria # <<>>
         /\ ContainsCI(e.aria, sel.text)
    [] sel.kind = "has_kid" ->
         /\ TagOk(sel.tag, e)
         /\ sel.k \in e.kids
         /\ (sel.dlg => e.dlg)
    [] sel.kind = "has_class" -> TagOk(sel.tag, e) /\ e.cls = sel.cls
    [] sel.kind = "data_action" -> FALSE
    [] sel.kind = "by_role" ->
         /\ e.role = sel.role
         /\ ContainsCI(AccName(e), sel.name)
    [] OTHER -> FALSE

\* locator.first: index of the first element of page d matching sel, 0 if none
First(sel, d) ==
  LET ms == {k \in DOMAIN d : Matches(sel, d[k])}
  IN IF ms = {} THEN 0 ELSE CHOOSE k \in ms : \A j \in ms : k <= j

\* locator.is_visible(): the first match exists and is visible
IsVisible(sel, d) ==
  LET k == First(sel, d)
  IN k # 0 /\ d[k].vis

\* ------------------------------------------------------------------ hrefs
\* An href is a sequence of characters.
Str_a == <<"/", "a", "/">>
Str_gallery == <<"/", "g", "a", "l", "l", "e", "r", "y", "/">>
Str_post == <<"/", "p", "o", "s", "t", "/">>
Str_image == <<"/", "i", "m", "a", "g", "e", "/">>

Alnum ==
  {"a", "b", "c", "d", "e", "f", "g", "h", "i", "j", "k", "l", "m", "n", "o",
   "p", "q", "r", "s", "t", "u", "v", "w", "x", "y", "z",
   "A", "B", "C", "D", "E", "F", "G", "H", "I", "J", "K", "L", "M", "N", "O",
   "P", "Q", "R", "S", "T", "U", "V", "W", "X", "Y", "Z",
   "0", "1", "2", "3", "4", "5", "6", "7", "8", "9"}

\* faulty variant of POST_HREF_PAT: the alternative [A-Za-z0-9]{5,} is missing
POST_HREF_PAT_NoBareId(href) ==
  \/ StartsWith(href, Str_gallery)
  \/ StartsWith(href, Str_a)
  \/ StartsWith(href, Str_post)
  \/ StartsWith(href, Str_image)

\* re.compile(r"^/(gallery/|a/|post/|image/|[A-Za-z0-9]{5,})").search(href)
POST_HREF_PAT(href) ==
  \/ StartsWith(href, Str_gallery)
  \/ StartsWith(href, Str_a)
  \/ StartsWith(href, Str_post)
  \/ StartsWith(href, Str_image)
  \/ /\ Len(href) >= 6
     /\ href[1] = "/"
     /\ \A k \in 2..6 : href[k] \in Alnum

BAD_PREFIXES ==
  {<<"/", "u", "p", "l", "o", "a", "d">>,
   <<"/", "n", "o", "t", "i", "f", "i", "c", "a", "t", "i", "o", "n", "s">>,
   <<"/", "s", "e", "t", "t", "i", "n", "g", "s">>,
   <<"/", "a", "c", "c", "o", "u", "n", "t", "/">>,
   <<"/", "u", "s", "e", "r", "/">>,
   <<"/", "t", "/">>,
   <<"/", "t", "o", "p", "i", "c", "s">>,
   <<"/", "p", "r", "i", "v", "a", "c", "y">>,
   <<"/", "t", "e", "r", "m", "s">>,
   <<"/", "a", "r", "c", "a", "d", "e">>}

\* s.split(c)[0]: the part of s before the first c
BeforeFirst(s, c) ==
  IF \E k \in DOMAIN s : s[k] = c
  THEN SubSeq(s, 1, (CHOOSE k \in DOMAIN s :
                       s[k] = c /\ \A j \in 1..(k - 1) : s[j] # c) - 1)
  ELSE s

\* (href).split("#")[0].split("?")[0]
NormalizeHref(raw) == BeforeFirst(BeforeFirst(raw, "#"), "?")

\* len(href.split("/")[-1]): length of the part after the last "/"
LastSegLen(href) ==
  IF \E k \in DOMAIN href : href[k] = "/"
  THEN Len(href) - (CHOOSE k \in DOMAIN href :
                      href[k] = "/" /\ \A j \in (k + 1)..Len(href) : href[j] # "/")
  ELSE Len(href)

\* delete_one: is_album, is_image and the branch taken
IsAlbum(href) == StartsWith(href, Str_a) \/ StartsWith(href, Str_gallery)

\* faulty variant of IsImage: the "/image/" substring test is missing
IsImage_SevenOnly(href) ==
  StartsWith(href, <<"/">>) /\ LastSegLen(href) = 7 /\ ~IsAlbum(href)

IsImage(href) ==
  \/ Contains(href, Str_image)
  \/ (StartsWith(href, <<"/">>) /\ LastSegLen(href) = 7 /\ ~IsAlbum(href))

\* the if / elif / else of delete_one: the image branch is tested first
Classify(href) ==
  IF IsImage(href) THEN "image"
  ELSE IF IsAlbum(href) THEN "album"
  ELSE "other"

\* --------------------------------------------------------------- extractor
\* Coordinates are kept in half pixels: a box coordinate c stands for c/2.
\* Python round(): to the nearest integer, ties to the even one.
Round(h) ==
  IF h % 2 = 0 THEN h \div 2
  ELSE IF ((h - 1) \div 2) % 2 = 0 THEN (h - 1) \div 2 ELSE (h + 1) \div 2

\* an anchor of the grid: raw href, box position, visibility, box present
Anchor(raw, x, y, vis, box) == [raw |-> raw, x |-> x, y |-> y, vis |-> vis, box |-> box]

\* faulty variant of KeepAnchor: the visibility test of lines 427-431 is missing
KeepAnchor_IgnoresVisibility(a) ==
  /\ StartsWith(NormalizeHref(a.raw), <<"/">>)
  /\ ~\E p \in BAD_PREFIXES : StartsWith(NormalizeHref(a.raw), p)
  /\ POST_HREF_PAT(NormalizeHref(a.raw))
  /\ a.box

\* lines 425-444: the filter producing items
KeepAnchor(a) ==
  /\ a.vis
  /\ StartsWith(NormalizeHref(a.raw), <<"/">>)
  /\ ~\E p \in BAD_PREFIXES : StartsWith(NormalizeHref(a.raw), p)
  /\ POST_HREF_PAT(NormalizeHref(a.raw))
  /\ a.box

RECURSIVE Items(_)
Items(located) ==
  IF located = <<>> THEN <<>>
  ELSE LET a == Head(located)
           rest == Items(Tail(located))
       IN IF KeepAnchor(a)
          THEN <<[href |-> NormalizeHref(a.raw), x |-> a.x, y |-> a.y]>> \o rest
          ELSE rest

\* faulty variant of SortKeyLeq: the key is (round(x), round(y))
SortKeyLeq_XFirst(s, t) ==
  \/ Round(s.x) < Round(t.x)
  \/ (Round(s.x) = Round(t.x) /\ Round(s.y) <= Round(t.y))

\* key=lambda t: (round(t[2]), round(t[1])) compared as tuples
SortKeyLeq(s, t) ==
  \/ Round(s.y) < Round(t.y)
  \/ (Round(s.y) = Round(t.y) /\ Round(s.x) <= Round(t.x))

\* insert t after every item whose key is <= its own (list.sort is stable)
RECURSIVE InsertSorted(_, _)
InsertSorted(sorted, t) ==
  IF sorted = <<>> THEN <<t>>
  ELSE IF SortKeyLeq(Head(sorted), t)
       THEN <<Head(sorted)>> \o InsertSorted(Tail(sorted), t)
       ELSE <<t>> \o sorted

RECURSIVE SortItems(_)
SortItems(items) ==
  IF items = <<>> THEN <<>>
  ELSE InsertSorted(SortItems(SubSeq(items, 1, Len(items) - 1)), items[Len(items)])

\* faulty variant of Dedupe: the last occurrence of every href is kept
RECURSIVE Dedupe_KeepLast(_, _)
Dedupe_KeepLast(items, seen) ==
  IF items = <<>> THEN <<>>
  ELSE IF \E k \in 2..Len(items) : items[k].href = Head(items).href
       THEN Dedupe_KeepLast(Tail(items), seen)
       ELSE <<Head(items)>> \o Dedupe_KeepLast(Tail(items), seen)

\* lines 448-452: keep the first occurrence of every href
RECURSIVE Dedupe(_, _)
Dedupe(items, seen) ==
  IF items = <<>> THEN <<>>
  ELSE IF Head(items).href \in seen
       THEN Dedupe(Tail(items), seen)
       ELSE <<Head(items)>> \o Dedupe(Tail(items), seen \cup {Head(items).href})

find_post_links_sorted(located) == Dedupe(SortItems(Items(located)), {})

H_album == <<"/", "a", "/", "1">>
H_image == <<"/", "I", "M", "A", "G", "E", "0", "1">>
H_other == <<"/", "p", "o", "s", "t", "/", "x", "9">>
H_user == <<"/", "u", "s", "e", "r", "/", "m", "e">>

\* the anchors the grid may show
AnchorPool ==
  {Anchor(H_album, 0, 0, TRUE, TRUE),
   Anchor(H_image, 300, 0, TRUE, TRUE),
   Anchor(H_other, 0, 300, TRUE, TRUE),
   Anchor(H_user, 0, 0, TRUE, TRUE)}

GridPool == UNION {[1..n -> AnchorPool] : n \in 0..MaxAnchors}

\* faulty variant of safe_click: the dry-run guard of lines 462-464 is missing
safe_click_NoDryGuard(sel, d, dry, clickOk) ==
  LET k == First(sel, d)
      visible == k # 0 /\ d[k].vis
  IN [ret |-> visible /\ clickOk,
      clicked |-> IF visible /\ clickOk THEN k ELSE 0]

\* ------------------------------------------------------------ safe_click
\* safe_click(page, locator, description, dry_run, timeout): ret is the value
\* returned, clicked the index of the element that received a real click (0:
\* none).  clickOk = FALSE: locator.click raises (caught, returns False).
safe_click(sel, d, dry, clickOk) ==
  LET k == First(sel, d)
      visible == k # 0 /\ d[k].vis
  IN [ret |-> visible /\ (dry \/ clickOk),
      clicked |-> IF visible /\ ~dry /\ clickOk THEN k ELSE 0]

\* `for selector in selectors: if safe_click(...): break`: the result of the
\* first strategy whose safe_click returns True
TryAll(sels, d, dry, clickOk) ==
  LET rs == [k \in 1..Len(sels) |-> safe_click(sels[k], d, dry, clickOk)]
      hits == {k \in 1..Len(sels) : rs[k].ret}
  IN IF hits = {} THEN [ret |-> FALSE, clicked |-> 0]
     ELSE rs[CHOOSE k \in hits : \A j \in hits : k <= j]

\* ----------------------------------------------------- selector chains
W_DeleteImage == <<"Delete", "image">>
W_DeletePost == <<"Delete", "post">>
W_DeletePostCap == <<"Delete", "Post">>
W_DeletePostOnly == <<"Delete", "Post", "Only">>
W_YesDeleteIt == <<"Yes,", "Delete", "It">>
W_DeleteFromAccount == <<"Delete", "from", "account">>

\* delete_post_container: delete_post_selectors, then the role-based try
delete_post_selectors ==
  <<HasText("button", W_DeletePost),
    TextIs(W_DeletePost),
    RoleAttrHasText("button", W_DeletePost),
    AriaHas("button", W_DeletePost),
    HasText("a", W_DeletePost),
    HasText("*", W_DeletePost),
    ByRole("button", W_DeletePost)>>

\* delete_post_container: confirmation_selectors
confirmation_selectors ==
  <<ByRole("button", W_DeletePostOnly),
    ByRole("button", W_DeletePostCap),
    HasText("button", W_DeletePostOnly),
    HasText("button", W_DeletePostCap)>>

\* delete_one, image branch, dry run: cancel_selectors, then the role-based try
cancel_selectors ==
  <<HasText("button", <<"Cancel">>),
    TextIs(<<"Cancel">>),
    RoleAttrHasText("button", <<"Cancel">>),
    AriaHas("button", <<"Cancel">>),
    HasText("button", <<"Close">>),
    DlgHasText("button", <<"Cancel">>),
    ByRole("button", <<"Cancel">>)>>

\* delete_one, other branch: three_dots_selectors
three_dots_selectors ==
  <<AriaHas("button", <<"more">>),
    AriaHas("button", <<"More">>),
    AriaHas("button", <<"options">>),
    AriaHas("[any]", <<"more", "options">>),
    HasKid("button", "more", FALSE),
    HasKid("button", "menu", FALSE),
    HasKid("button", "dots", FALSE),
    HasKid("[any]", "more", FALSE),
    HasText("button", <<"u22ef">>),
    HasText("button", <<"...">>)>>

\* delete_one, other branch: delete_image_selectors, then the menuitem role
delete_image_selectors ==
  <<TextIs(W_DeleteImage),
    HasText("button", W_DeleteImage),
    RoleAttrHasText("menuitem", W_DeleteImage),
    InMenuHasText(W_DeleteImage),
    HasText("a", W_DeleteImage),
    HasText("*", W_DeleteImage),
    ByRole("menuitem", W_DeleteImage)>>

\* delete_one, other branch: delete_from_account_selectors, then the role regex
delete_from_account_selectors ==
  <<HasClass("button", "DeleteImageDialog-confirm--accountRemove"),
    HasText("button", W_DeleteFromAccount),
    TextIs(W_DeleteFromAccount),
    DlgHasText("button", W_DeleteFromAccount),
    AriaHas("button", W_DeleteFromAccount),
    HasKid("button", "red", TRUE),
    HasKid("button", "danger", TRUE),
    ByRole("button", W_DeleteFromAccount)>>

\* delete_one: confirm_selectors, then the three role labels
confirm_selectors ==
  <<HasText("button", W_YesDeleteIt),
    HasText("button", <<"Delete">>),
    HasText("button", <<"Confirm">>),
    DataAction("confirm"),
    DlgHasText("button", <<"Delete">>),
    DlgHasText("button", <<"Confirm">>),
    ByRole("button", W_YesDeleteIt),
    ByRole("button", <<"Delete">>),
    ByRole("button", <<"Confirm">>)>>

\* the button scan of lines 743-757: every <button> whose aria-label, lowered,
\* contains "more", "menu" or "options" is tried with safe_click, in order
ScanLabelOk(e) ==
  /\ e.tag = "button"
  /\ \/ Contains(LowerSeq(e.aria), <<"more">>)
     \/ Contains(LowerSeq(e.aria), <<"menu">>)
     \/ Contains(LowerSeq(e.aria), <<"options">>)

ButtonScan(d, dry, clickOk) ==
  LET hits == {k \in DOMAIN d : ScanLabelOk(d[k]) /\ d[k].vis /\ (dry \/ clickOk)}
  IN IF hits = {} THEN [ret |-> FALSE, clicked |-> 0]
     ELSE [ret |-> TRUE,
           clicked |-> IF dry THEN 0 ELSE CHOOSE k \in hits : \A j \in hits : k <= j]

\* three dots stage: the selector chain, then the button scan
OpenMenu(d, dry, clickOk) ==
  LET r == TryAll(three_dots_selectors, d, dry, clickOk)
  IN IF r.ret THEN r ELSE ButtonScan(d, dry, clickOk)

\* line 550: return confirmation_clicked or delete_post_clicked
DeletePostContainerResult(confirmation_clicked, delete_post_clicked) ==
  confirmation_clicked \/ delete_post_clicked

\* faulty variant of AlbumOutcome: a successful ungroup reports one image
AlbumOutcome_CountsImages(deleted_flag) ==
  IF deleted_flag THEN [ok |-> TRUE, n |-> 1] ELSE [ok |-> FALSE, n |-> 0]

\* lines 704-715: the album outcome from delete_post_container's result
AlbumOutcome(deleted_flag) ==
  IF deleted_flag THEN [ok |-> TRUE, n |-> 0] ELSE [ok |-> FALSE, n |-> 0]

Failed == [ok |-> FALSE, n |-> 0]
DeletedOne == [ok |-> TRUE, n |-> 1]
NoOutcome == [ok |-> FALSE, n |-> -1]

\* faulty variant of VerifyOutcome: a timeout of the final navigation counts
\* as a failure
VerifyOutcome_FailsOnTimeout(confirmed_flag, deleted_flag, c1, u1, v1, g, c2, u2) ==
  IF ~confirmed_flag /\ c1 THEN DeletedOne
  ELSE IF ~confirmed_flag /\ u1 /\ v1 THEN DeletedOne
  ELSE IF confirmed_flag \/ deleted_flag
       THEN IF g = "timeout" THEN Failed
            ELSE IF g = "ok" /\ c2 THEN DeletedOne
            ELSE IF g = "ok" /\ u2 THEN Failed
            ELSE DeletedOne
       ELSE Failed

\* lines 875-924: the verification of the other/menu path.  c1: the page text
\* shows 404 / not found / deleted; u1: the url left the post; v1: the load
\* wait succeeded and the text has no 404; g: result of the final page.goto;
\* c2: the reloaded text shows a not-found indicator; u2: the url is still
\* the post's.
VerifyOutcome(confirmed_flag, deleted_flag, c1, u1, v1, g, c2, u2) ==
  IF ~confirmed_flag /\ c1 THEN DeletedOne
  ELSE IF ~confirmed_flag /\ u1 /\ v1 THEN DeletedOne
  ELSE IF confirmed_flag \/ deleted_flag
       THEN IF g = "timeout" THEN DeletedOne
            ELSE IF g = "ok" /\ c2 THEN DeletedOne
            ELSE IF g = "ok" /\ u2 THEN Failed
            ELSE DeletedOne
       ELSE Failed

\* faulty variant of Increment: a failed attempt is not counted
Increment_SkipFailed(o) ==
  IF o.ok
  THEN IF o.n = 0 THEN 1 ELSE o.n
  ELSE 0

\* faulty variant of Increment: images_count is added as it is
Increment_RawCount(o) == o.n

\* lines 988-1001: what one processed link adds to processed
Increment(o) ==
  IF o.ok
  THEN IF o.n = 0 THEN 1 ELSE o.n
  ELSE 1

\* ------------------------------------------------------------------ state
VARIABLES
  pc,              \* position in main() / delete_one()
  dry_run,         \* configuration: dry run
  max_to_process,  \* configuration: the cap
  processed,       \* main: processed
  seen_heights,    \* main: seen_heights
  last_h,          \* main: last_h (0: not yet assigned)
  links,           \* main: links, the last extraction
  idx,             \* main: position of the for loop in links
  location,        \* page: "none", "grid" or "post"
  scroll,          \* page: "top", "bottom" or "post" (a post page's own scroll)
  dom,             \* page: the elements seen at the last probe of this post
  dirty,           \* page: re-rendered since dom was probed
  clicks,          \* real clicks of the running delete_one call
  image_count,     \* delete_one: image_count of the album branch
  confirmed,       \* delete_one: confirmed
  outcome,         \* value returned by the last delete_one call
  browser,         \* "none", "open", "closed"
  context,         \* "none", "open", "closed"
  closes,          \* close() calls attempted by the finally block
  reported,        \* the count printed at the end (-1: nothing printed)
  exitKind,        \* how the run ended
  anchors          \* find_post_links_sorted: the anchors located on the page,
                   \* alive during a call of the extractor only

vars ==
  <<pc, dry_run, max_to_process, processed, seen_heights, last_h, links, idx,
    location, scroll, dom, dirty, clicks, image_count, confirmed, outcome,
    browser, context, closes, reported, exitKind, anchors>>

cfgVars == <<dry_run, max_to_process>>
loopVars == <<processed, seen_heights, last_h, links, idx>>
pageVars == <<location, scroll>>
drvVars == <<dom, dirty, clicks, image_count, confirmed, outcome>>
sessVars == <<browser, context, closes>>
endVars == <<reported, exitKind>>

DriverPcs ==
  {"img_delete", "img_confirm", "alb_delete", "alb_confirm",
   "oth_menu", "oth_item", "oth_account", "confirm", "verify"}

\* positions inside the try block of lines 968-1021
TryPcs ==
  {"enter", "while", "extract", "observe_empty", "call", "count", "nav",
   "capcheck", "observe_pass", "done"} \cup DriverPcs

Init ==
  /\ pc = "setup"
  /\ dry_run \in BOOLEAN
  /\ max_to_process \in 1..MaxCap
  /\ processed = 0
  /\ seen_heights = {}
  /\ last_h = 0
  /\ links = <<>>
  /\ idx = 0
  /\ location = "none"
  /\ scroll = "top"
  /\ dom = <<>>
  /\ dirty = FALSE
  /\ clicks = <<>>
  /\ image_count = 0
  /\ confirmed = FALSE
  /\ outcome = NoOutcome
  /\ browser = "none"
  /\ context = "none"
  /\ closes = {}
  /\ reported = -1
  /\ exitKind = "none"
  /\ anchors = <<>>

\* faulty variant of CheckStorage: the missing file is reported and the run
\* goes on
CheckStorage_IgnoresMissing ==
  /\ pc = "setup"
  /\ \E exists \in BOOLEAN :
       /\ pc' = "launch"
       /\ exitKind' = IF exists THEN exitKind ELSE "refused"
  /\ UNCHANGED <<anchors, cfgVars, loopVars, pageVars, drvVars, sessVars, reported>>

\* ------------------------------------------------------------------ setup
\* lines 942-943: the storage file must exist
CheckStorage ==
  /\ pc = "setup"
  /\ \E exists \in BOOLEAN :
       IF exists
       THEN pc' = "launch" /\ exitKind' = exitKind
       ELSE pc' = "exit" /\ exitKind' = "refused"
  /\ UNCHANGED <<anchors, cfgVars, loopVars, pageVars, drvVars, sessVars, reported>>

\* an error or interrupt outside the inner try: lines 1036-1041, no close()
OuterExit(r) ==
  /\ pc' = "exit"
  /\ exitKind' = IF r = "interrupt" THEN "interrupt_outer" ELSE "error_outer"

\* line 955: p.chromium.launch
Launch ==
  /\ pc = "launch"
  /\ \E r \in {"ok", "error", "interrupt"} :
       IF r = "ok"
       THEN pc' = "new_context" /\ browser' = "open" /\ exitKind' = exitKind
       ELSE OuterExit(r) /\ browser' = browser
  /\ UNCHANGED <<anchors, cfgVars, loopVars, pageVars, drvVars, context, closes, reported>>

\* lines 958-962: browser.new_context
NewContext ==
  /\ pc = "new_context"
  /\ \E r \in {"ok", "error", "interrupt"} :
       IF r = "ok"
       THEN pc' = "new_page" /\ context' = "open" /\ exitKind' = exitKind
       ELSE OuterExit(r) /\ context' = context
  /\ UNCHANGED <<anchors, cfgVars, loopVars, pageVars, drvVars, browser, closes, reported>>

\* lines 963-966: context.new_page, processed = 0, seen_heights = set()
NewPage ==
  /\ pc = "new_page"
  /\ \E r \in {"ok", "error", "interrupt"} :
       IF r = "ok"
       THEN pc' = "enter" /\ exitKind' = exitKind
       ELSE OuterExit(r)
  /\ processed' = 0
  /\ seen_heights' = {}
  /\ UNCHANGED <<anchors, cfgVars, last_h, links, idx, pageVars, drvVars, sessVars, reported>>

\* ------------------------------------------------------------ navigation
\* safe_goto: "ok" the first goto succeeds, "retry_ok" it times out and the
\* second succeeds, "raise" an exception leaves safe_goto
NavResults == {"ok", "retry_ok", "raise"}

safe_goto(r) == r # "raise"

\* an exception other than KeyboardInterrupt inside the try block: the finally
\* block runs, then the handler of line 1040
RaiseInTry ==
  /\ pc' = "finally"
  /\ exitKind' = "error"

\* the frame of delete_one, if any, is unwound: its locals are gone
Unwind ==
  /\ dom' = <<>>
  /\ dirty' = FALSE
  /\ clicks' = <<>>
  /\ image_count' = 0
  /\ confirmed' = FALSE
  /\ outcome' = NoOutcome

\* go_to_posts_all(page, username); scroll_to_top(page)
go_to_posts_all == [location |-> "grid", scroll |-> "top"]

\* lines 969-970
EnterGrid ==
  /\ pc = "enter"
  /\ \E r \in NavResults :
       IF safe_goto(r)
       THEN /\ location' = go_to_posts_all.location
            /\ scroll' = go_to_posts_all.scroll
            /\ pc' = "while"
            /\ exitKind' = exitKind
       ELSE RaiseInTry /\ UNCHANGED pageVars
  /\ UNCHANGED <<anchors, cfgVars, loopVars, drvVars, sessVars, reported>>

\* -------------------------------------------------------- orchestration
\* line 972: while processed < max_to_process; leaving the loop reaches 1021
WhileTest ==
  /\ pc = "while"
  /\ pc' = IF processed < max_to_process THEN "extract" ELSE "done"
  /\ UNCHANGED <<anchors, cfgVars, loopVars, pageVars, drvVars, sessVars, endVars>>

\* lines 973-974 and the entry of the for loop of line 985
ExtractFrom(grids) ==
  /\ pc = "extract"
  /\ \E g \in grids :
       /\ links' = find_post_links_sorted(g)
       /\ IF links' = <<>>
          THEN pc' = "observe_empty" /\ idx' = 0
          ELSE pc' = "call" /\ idx' = 1
  /\ UNCHANGED <<anchors, cfgVars, processed, seen_heights, last_h, pageVars, drvVars,
                 sessVars, endVars>>

\* the grid shows any of the pages of GridPool
Extract == ExtractFrom(GridPool)

\* faulty variant of ObserveHeight: a height seen before does not end the loop
ObserveHeight_NeverBreaks(h) ==
  /\ last_h' = h
  /\ seen_heights' = seen_heights \cup {h}
  /\ scroll' = "bottom"
  /\ pc' = "while"

\* faulty variant of ObserveHeight: a new height is recorded without scrolling
ObserveHeight_NoScroll(h) ==
  /\ last_h' = h
  /\ IF h \in seen_heights
     THEN /\ pc' = "done"
          /\ UNCHANGED <<seen_heights, scroll>>
     ELSE /\ seen_heights' = seen_heights \cup {h}
          /\ scroll' = scroll
          /\ pc' = "while"

\* faulty variant of ObserveHeight: the loop is left whatever the height
ObserveHeight_AlwaysBreaks(h) ==
  /\ last_h' = h
  /\ pc' = "done"
  /\ UNCHANGED <<seen_heights, scroll>>

\* faulty variant of ObserveHeight: a new height is not recorded
ObserveHeight_ForgetsHeight(h) ==
  /\ last_h' = h
  /\ IF h \in seen_heights
     THEN /\ pc' = "done"
          /\ UNCHANGED <<seen_heights, scroll>>
     ELSE /\ seen_heights' = seen_heights
          /\ scroll' = "bottom"
          /\ pc' = "while"

\* lines 976-983 and 1013-1019: observe the scroll height; a height already
\* seen breaks out of the while loop, a new one is recorded and the page is
\* scrolled to the bottom
ObserveHeight(h) ==
  /\ last_h' = h
  /\ IF h \in seen_heights
     THEN /\ pc' = "done"
          /\ UNCHANGED <<seen_heights, scroll>>
     ELSE /\ seen_heights' = seen_heights \cup {h}
          /\ scroll' = "bottom"
          /\ pc' = "while"

\* lines 976-983: no links
ObserveEmpty ==
  /\ pc = "observe_empty"
  /\ \E h \in 1..MaxHeight : ObserveHeight(h)
  /\ UNCHANGED <<anchors, cfgVars, processed, links, idx, location, drvVars, sessVars, endVars>>

\* faulty variant of ObservePass: once the cap is reached the loop is left
\* without observing the height
ObservePass_SkipsAtCap ==
  /\ pc = "observe_pass"
  /\ IF processed >= max_to_process
     THEN pc' = "done" /\ UNCHANGED <<last_h, seen_heights, scroll>>
     ELSE \E h \in 1..MaxHeight : ObserveHeight(h)
  /\ UNCHANGED <<anchors, cfgVars, processed, links, idx, location, drvVars, sessVars, endVars>>

\* lines 1013-1019: after the for loop
ObservePass ==
  /\ pc = "observe_pass"
  /\ \E h \in 1..MaxHeight : ObserveHeight(h)
  /\ UNCHANGED <<anchors, cfgVars, processed, links, idx, location, drvVars, sessVars, endVars>>

\* the branch of delete_one taken for href (lines 568-573, 681, 716)
FirstStage(href) ==
  CASE Classify(href) = "image" -> "img_delete"
    [] Classify(href) = "album" -> "alb_delete"
    [] OTHER -> "oth_menu"

\* lines 986-987 and 561-573: delete_one is called, navigates to the post
\* and picks its branch
CallDriver ==
  /\ pc = "call"
  /\ \E r \in NavResults :
       IF safe_goto(r)
       THEN /\ location' = "post"
            /\ scroll' = "post"
            /\ pc' = FirstStage(links[idx].href)
            /\ exitKind' = exitKind
       ELSE RaiseInTry /\ UNCHANGED pageVars
  /\ dom' = <<>>
  /\ dirty' = TRUE
  /\ clicks' = <<>>
  /\ image_count' = 0
  /\ confirmed' = FALSE
  /\ outcome' = NoOutcome
  /\ UNCHANGED <<anchors, cfgVars, loopVars, sessVars, reported>>

\* lines 988-1001
Count ==
  /\ pc = "count"
  /\ processed' = processed + Increment(outcome)
  /\ clicks' = <<>>
  /\ image_count' = 0
  /\ confirmed' = FALSE
  /\ pc' = "nav"
  /\ UNCHANGED <<anchors, cfgVars, seen_heights, last_h, links, idx, pageVars, dom, dirty,
                 outcome, sessVars, endVars>>

\* faulty variant of NavBack: the grid is reloaded after a success only
NavBack_OnlyOnSuccess ==
  /\ pc = "nav"
  /\ \E r \in NavResults :
       IF safe_goto(r)
       THEN /\ location' = IF outcome.ok THEN go_to_posts_all.location ELSE location
            /\ scroll' = IF outcome.ok THEN go_to_posts_all.scroll ELSE scroll
            /\ pc' = "capcheck"
            /\ exitKind' = exitKind
       ELSE RaiseInTry /\ UNCHANGED pageVars
  /\ UNCHANGED <<anchors, cfgVars, loopVars, drvVars, sessVars, reported>>

\* lines 1006-1007: always back to the grid, scrolled to the top
NavBack ==
  /\ pc = "nav"
  /\ \E r \in NavResults :
       IF safe_goto(r)
       THEN /\ location' = go_to_posts_all.location
            /\ scroll' = go_to_posts_all.scroll
            /\ pc' = "capcheck"
            /\ exitKind' = exitKind
       ELSE RaiseInTry /\ UNCHANGED pageVars
  /\ UNCHANGED <<anchors, cfgVars, loopVars, drvVars, sessVars, reported>>

\* faulty variant of CapCheck: below the cap the grid is queried again after
\* every link
CapCheck_Requery ==
  /\ pc = "capcheck"
  /\ IF processed >= max_to_process
     THEN pc' = "observe_pass" /\ idx' = idx
     ELSE pc' = "while" /\ idx' = idx
  /\ UNCHANGED <<anchors, cfgVars, processed, seen_heights, last_h, links, pageVars,
                 drvVars, sessVars, endVars>>

\* faulty variant of CapCheck: the test of line 1009 is missing
CapCheck_IgnoresCap ==
  /\ pc = "capcheck"
  /\ IF idx < Len(links)
     THEN pc' = "call" /\ idx' = idx + 1
     ELSE pc' = "observe_pass" /\ idx' = idx
  /\ UNCHANGED <<anchors, cfgVars, processed, seen_heights, last_h, links, pageVars,
                 drvVars, sessVars, endVars>>

\* faulty variant of CapCheck: the for loop is left only once processed
\* exceeds the cap
CapCheck_StrictCap ==
  /\ pc = "capcheck"
  /\ IF processed > max_to_process
     THEN pc' = "observe_pass" /\ idx' = idx
     ELSE IF idx < Len(links)
          THEN pc' = "call" /\ idx' = idx + 1
          ELSE pc' = "observe_pass" /\ idx' = idx
  /\ UNCHANGED <<anchors, cfgVars, processed, seen_heights, last_h, links, pageVars,
                 drvVars, sessVars, endVars>>

\* lines 1009-1010 and the next iteration of the for loop
CapCheck ==
  /\ pc = "capcheck"
  /\ IF processed >= max_to_process
     THEN pc' = "observe_pass" /\ idx' = idx
     ELSE IF idx < Len(links)
          THEN pc' = "call" /\ idx' = idx + 1
          ELSE pc' = "observe_pass" /\ idx' = idx
  /\ UNCHANGED <<anchors, cfgVars, processed, seen_heights, last_h, links, pageVars,
                 drvVars, sessVars, endVars>>

\* line 1021: the summary
Done ==
  /\ pc = "done"
  /\ reported' = processed
  /\ exitKind' = "normal"
  /\ pc' = "finally"
  /\ UNCHANGED <<anchors, cfgVars, loopVars, pageVars, drvVars, sessVars>>

\* a page probe outside any try/except of the loop raises (anchors.count(),
\* get_attribute, page.evaluate)
ProbeError ==
  /\ pc \in {"extract", "observe_empty", "observe_pass"}
  /\ RaiseInTry
  /\ Unwind
  /\ UNCHANGED <<anchors, cfgVars, loopVars, pageVars, sessVars, reported>>

\* faulty variant of KeyboardInterruptInTry: a handler inside the loop
\* swallows the interrupt and the loop goes on
KeyboardInterruptInTry_Swallowed ==
  /\ pc \in TryPcs
  /\ exitKind' = "interrupt"
  /\ UNCHANGED <<pc, reported, anchors, cfgVars, loopVars, pageVars, drvVars, sessVars>>

\* lines 1023-1024: Ctrl+C anywhere inside the try block; delete_one and its
\* helpers catch Exception only, so the interrupt reaches this handler
KeyboardInterruptInTry ==
  /\ pc \in TryPcs
  /\ reported' = processed
  /\ exitKind' = "interrupt"
  /\ pc' = "finally"
  /\ Unwind
  /\ UNCHANGED <<anchors, cfgVars, loopVars, pageVars, sessVars>>

\* lines 1027-1030: context.close(), whatever it raises is swallowed
CloseContext ==
  /\ pc = "finally"
  /\ closes' = closes \cup {"context"}
  /\ \E r \in {"ok", "error", "interrupt"} :
       context' = IF r = "ok" THEN "closed" ELSE context
  /\ pc' = "close_browser"
  /\ UNCHANGED <<anchors, cfgVars, loopVars, pageVars, drvVars, browser, endVars>>

\* lines 1031-1035: browser.close(), whatever it raises is swallowed
CloseBrowser ==
  /\ pc = "close_browser"
  /\ closes' = closes \cup {"browser"}
  /\ \E r \in {"ok", "error", "interrupt"} :
       browser' = IF r = "ok" THEN "closed" ELSE browser
  /\ pc' = "exit"
  /\ UNCHANGED <<anchors, cfgVars, loopVars, pageVars, drvVars, context, endVars>>

\* ----------------------------------------------------------------- drivers
\* what a probe of the post page sees: a fresh rendering after a navigation
\* or a real click, the elements probed before otherwise
View == IF dirty THEN DomPool ELSE {dom}

\* whether locator.click() succeeds; safe_click never reaches click() in a dry
\* run (lines 462-464)
ClickOk == IF dry_run THEN {TRUE} ELSE BOOLEAN

\* is_visible() then click(), without the dry-run guard (lines 584-594,
\* 631-633, 645-647)
RealClick(sel, d, clickOk) ==
  LET k == First(sel, d)
      visible == k # 0 /\ d[k].vis
  IN [ret |-> visible /\ clickOk,
      clicked |-> IF visible /\ clickOk THEN k ELSE 0]

TryAllReal(sels, d, clickOk) ==
  LET rs == [k \in 1..Len(sels) |-> RealClick(sels[k], d, clickOk)]
      hits == {k \in 1..Len(sels) : rs[k].ret}
  IN IF hits = {} THEN [ret |-> FALSE, clicked |-> 0]
     ELSE rs[CHOOSE k \in hits : \A j \in hits : k <= j]

AddClick(d, r, stage) ==
  IF r.clicked = 0 THEN clicks
  ELSE Append(clicks, [ctl |-> AccName(d[r.clicked]), stage |-> stage])

\* delete_one returns o to the loop
Return(o) ==
  /\ outcome' = o
  /\ pc' = "count"
  /\ dom' = <<>>
  /\ dirty' = FALSE

\* delete_one goes on to its next stage
Continue(next, d, r) ==
  /\ pc' = next
  /\ outcome' = outcome
  /\ IF r.clicked # 0
     THEN dom' = <<>> /\ dirty' = TRUE
     ELSE dom' = d /\ dirty' = FALSE

\* image branch, step 1 (lines 581-612): the "Delete image" button; the dry
\* run clicks it for real to open the dialog
ImgDelete ==
  /\ pc = "img_delete"
  /\ \E d \in View, clickOk \in BOOLEAN :
       LET r == IF dry_run THEN RealClick(ByRole("button", W_DeleteImage), d, clickOk)
                ELSE safe_click(ByRole("button", W_DeleteImage), d, dry_run, clickOk)
       IN /\ clicks' = AddClick(d, r, "img_delete")
          /\ IF r.ret THEN Continue("img_confirm", d, r) ELSE Return(Failed)
  /\ UNCHANGED <<anchors, cfgVars, loopVars, pageVars, image_count, confirmed, sessVars, endVars>>

\* faulty variant of ImgConfirm: a live run reports success whether or not
\* "Yes, Delete It" was clicked
ImgConfirm_AlwaysSucceeds ==
  /\ pc = "img_confirm"
  /\ \E d \in View, clickOk \in BOOLEAN :
       LET r == IF dry_run THEN TryAllReal(cancel_selectors, d, clickOk)
                ELSE safe_click(ByRole("button", W_YesDeleteIt), d, dry_run, clickOk)
       IN /\ clicks' = AddClick(d, r, IF dry_run THEN "img_cancel" ELSE "img_confirm")
          /\ Return(DeletedOne)
  /\ UNCHANGED <<anchors, cfgVars, loopVars, pageVars, image_count, confirmed, sessVars, endVars>>

\* image branch, step 2 (lines 614-679): dry run: Cancel; live: "Yes, Delete It"
ImgConfirm ==
  /\ pc = "img_confirm"
  /\ \E d \in View, clickOk \in BOOLEAN :
       LET r == IF dry_run THEN TryAllReal(cancel_selectors, d, clickOk)
                ELSE safe_click(ByRole("button", W_YesDeleteIt), d, dry_run, clickOk)
       IN IF dry_run
          THEN /\ clicks' = AddClick(d, r, "img_cancel")
               /\ Return(DeletedOne)
          ELSE /\ clicks' = AddClick(d, r, "img_confirm")
               /\ Return(IF r.ret THEN DeletedOne ELSE Failed)
  /\ UNCHANGED <<anchors, cfgVars, loopVars, pageVars, image_count, confirmed, sessVars, endVars>>

\* lines 688-697: len(page.locator('text="..."').all())
CountGlyphs(d) == Cardinality({k \in DOMAIN d : Matches(TextIs(<<"...">>), d[k])})

\* album branch (lines 681-702) and delete_post_container lines 477-517:
\* count the images, then the "Delete post" control
AlbDelete ==
  /\ pc = "alb_delete"
  /\ \E d \in View, clickOk \in ClickOk :
       LET r == TryAll(delete_post_selectors, d, dry_run, clickOk)
       IN /\ image_count' = CountGlyphs(d)
          /\ clicks' = AddClick(d, r, "alb_delete")
          /\ IF r.ret
             THEN Continue("alb_confirm", d, r)
             ELSE Return(AlbumOutcome(FALSE))
  /\ UNCHANGED <<anchors, cfgVars, loopVars, pageVars, confirmed, sessVars, endVars>>

\* delete_post_container lines 519-550 and delete_one lines 704-715
AlbConfirm ==
  /\ pc = "alb_confirm"
  /\ \E d \in View, clickOk \in ClickOk :
       LET r == TryAll(confirmation_selectors, d, dry_run, clickOk)
       IN /\ clicks' = AddClick(d, r, "alb_confirm")
          /\ Return(AlbumOutcome(DeletePostContainerResult(r.ret, TRUE)))
  /\ UNCHANGED <<anchors, cfgVars, loopVars, pageVars, image_count, confirmed, sessVars, endVars>>

\* other branch, stage 1 (lines 716-757, 831-833): the overflow menu
OthMenu ==
  /\ pc = "oth_menu"
  /\ \E d \in View, clickOk \in ClickOk :
       LET r == OpenMenu(d, dry_run, clickOk)
       IN /\ clicks' = AddClick(d, r, "oth_menu")
          /\ IF r.ret THEN Continue("oth_item", d, r) ELSE Return(Failed)
  /\ UNCHANGED <<anchors, cfgVars, loopVars, pageVars, image_count, confirmed, sessVars, endVars>>

\* faulty variant of OthItem: the dialog stage is tried although the menu
\* entry was not selected
OthItem_ContinuesOnFailure ==
  /\ pc = "oth_item"
  /\ \E d \in View, clickOk \in ClickOk :
       LET r == TryAll(delete_image_selectors, d, dry_run, clickOk)
       IN /\ clicks' = AddClick(d, r, "oth_item")
          /\ Continue("oth_account", d, r)
  /\ UNCHANGED <<anchors, cfgVars, loopVars, pageVars, image_count, confirmed, sessVars, endVars>>

\* other branch, stage 2 (lines 759-792): the "Delete image" menu entry
OthItem ==
  /\ pc = "oth_item"
  /\ \E d \in View, clickOk \in ClickOk :
       LET r == TryAll(delete_image_selectors, d, dry_run, clickOk)
       IN /\ clicks' = AddClick(d, r, "oth_item")
          /\ IF r.ret THEN Continue("oth_account", d, r) ELSE Return(Failed)
  /\ UNCHANGED <<anchors, cfgVars, loopVars, pageVars, image_count, confirmed, sessVars, endVars>>

\* other branch, stage 3 (lines 794-837): "Delete from account"
OthAccount ==
  /\ pc = "oth_account"
  /\ \E d \in View, clickOk \in ClickOk :
       LET r == TryAll(delete_from_account_selectors, d, dry_run, clickOk)
       IN /\ clicks' = AddClick(d, r, "oth_account")
          /\ IF r.ret THEN Continue("confirm", d, r) ELSE Return(Failed)
  /\ UNCHANGED <<anchors, cfgVars, loopVars, pageVars, image_count, confirmed, sessVars, endVars>>

\* lines 839-873: the generic confirmation
Confirm ==
  /\ pc = "confirm"
  /\ \E d \in View, clickOk \in ClickOk :
       LET r == TryAll(confirm_selectors, d, dry_run, clickOk)
       IN /\ clicks' = AddClick(d, r, "confirm")
          /\ confirmed' = r.ret
  /\ pc' = "verify"
  /\ dom' = <<>>
  /\ dirty' = TRUE
  /\ UNCHANGED <<anchors, cfgVars, loopVars, pageVars, image_count, outcome, sessVars, endVars>>

\* lines 875-924: the heuristic verification
Verify ==
  /\ pc = "verify"
  /\ \E c1 \in BOOLEAN, u1 \in BOOLEAN, v1 \in BOOLEAN,
        g \in {"ok", "timeout", "error"}, c2 \in BOOLEAN, u2 \in BOOLEAN :
       Return(VerifyOutcome(confirmed, TRUE, c1, u1, v1, g, c2, u2))
  /\ UNCHANGED <<anchors, cfgVars, loopVars, pageVars, clicks, image_count, confirmed,
                 sessVars, endVars>>

\* ------------------------------------------------------------ specification
Next ==
  \/ CheckStorage
  \/ Launch
  \/ NewContext
  \/ NewPage
  \/ EnterGrid
  \/ WhileTest
  \/ Extract
  \/ ObserveEmpty
  \/ ObservePass
  \/ CallDriver
  \/ ImgDelete
  \/ ImgConfirm
  \/ AlbDelete
  \/ AlbConfirm
  \/ OthMenu
  \/ OthItem
  \/ OthAccount
  \/ Confirm
  \/ Verify
  \/ Count
  \/ NavBack
  \/ CapCheck
  \/ Done
  \/ ProbeError
  \/ KeyboardInterruptInTry
  \/ CloseContext
  \/ CloseBrowser

Spec == Init /\ [][Next]_vars

\* ------------------------------------------------- extractor and classifier
\* find_post_links_sorted and the branch test of delete_one as functions of
\* their input: a call of the extractor on the located anchors, then the for
\* loop handing each link to the branch test.
X_album == <<"/", "a", "/", "1">>
X_albumQ == <<"/", "a", "/", "1", "?", "s", "=", "1">>
X_albumF == <<"/", "a", "/", "1", "#", "c">>
X_albumImg == <<"/", "a", "/", "1", "/", "i", "m", "a", "g", "e", "/", "2">>
X_album7 == <<"/", "a", "/", "A", "B", "C", "D", "E", "F", "G">>
X_gallery == <<"/", "g", "a", "l", "l", "e", "r", "y", "/", "2">>
X_image7 == <<"/", "I", "M", "A", "G", "E", "0", "1">>
X_imagePath == <<"/", "i", "m", "a", "g", "e", "/", "x", "y", "z">>
X_post == <<"/", "p", "o", "s", "t", "/", "x", "9">>
X_random == <<"/", "r", "a", "n", "d", "o", "m", "P", "a", "t", "h", "1", "2", "3">>
X_user == <<"/", "u", "s", "e", "r", "/", "m", "e">>
X_short == <<"/", "a", "b">>
X_rel == <<"a", "/", "1">>

\* anchors a grid page may hold: same post under several urls and places,
\* sub-pixel rows, links to other parts of the site, hidden and detached ones
ExtractorAnchors ==
  {Anchor(X_album, 0, 0, TRUE, TRUE),
   Anchor(X_albumQ, 300, 0, TRUE, TRUE),
   Anchor(X_albumF, 0, 1, TRUE, TRUE),
   Anchor(X_albumImg, 0, 300, TRUE, TRUE),
   Anchor(X_album7, 600, 300, TRUE, TRUE),
   Anchor(X_gallery, 0, 0, FALSE, TRUE),
   Anchor(X_image7, 300, 1, TRUE, TRUE),
   Anchor(X_image7, 0, 3, TRUE, TRUE),
   Anchor(X_imagePath, 600, 0, TRUE, TRUE),
   Anchor(X_post, 0, 0, TRUE, FALSE),
   Anchor(X_post, 300, 300, TRUE, TRUE),
   Anchor(X_random, 300, 3, TRUE, TRUE),
   Anchor(X_user, 0, 0, TRUE, TRUE),
   Anchor(X_short, 0, 0, TRUE, TRUE),
   Anchor(X_rel, 0, 0, TRUE, TRUE)}

ExtractorGrids == UNION {[1..n -> ExtractorAnchors] : n \in 0..MaxGrid}

BranchPcs == {"img_delete", "alb_delete", "oth_menu"}

ExtractorInit ==
  /\ pc = "find_post_links_sorted"
  /\ anchors \in ExtractorGrids
  /\ dry_run = FALSE
  /\ max_to_process = 1
  /\ processed = 0
  /\ seen_heights = {}
  /\ last_h = 0
  /\ links = <<>>
  /\ idx = 0
  /\ location = "grid"
  /\ scroll = "top"
  /\ dom = <<>>
  /\ dirty = FALSE
  /\ clicks = <<>>
  /\ image_count = 0
  /\ confirmed = FALSE
  /\ outcome = NoOutcome
  /\ browser = "open"
  /\ context = "open"
  /\ closes = {}
  /\ reported = -1
  /\ exitKind = "none"

\* lines 413-453: the extractor returns
ReturnLinks ==
  /\ pc = "find_post_links_sorted"
  /\ links' = find_post_links_sorted(anchors)
  /\ idx' = 0
  /\ pc' = "for"
  /\ UNCHANGED <<anchors, cfgVars, processed, seen_heights, last_h, pageVars,
                 drvVars, sessVars, endVars>>

\* line 985 and lines 568-573, 681, 716: the next link and its branch
BranchOfNext ==
  /\ pc \in {"for"} \cup BranchPcs
  /\ idx < Len(links)
  /\ idx' = idx + 1
  /\ pc' = FirstStage(links[idx + 1].href)
  /\ UNCHANGED <<anchors, cfgVars, processed, seen_heights, last_h, links,
                 pageVars, drvVars, sessVars, endVars>>

ExtractorNext ==
  \/ ReturnLinks
  \/ BranchOfNext

ExtractorSpec == ExtractorInit /\ [][ExtractorNext]_vars

\* ------------------------------------------------------ end-to-end scenario
\* A dry run with cap 3 on a grid that shows, in document order, "/a/1" at
\* (x, y) = (0, 0), "/IMAGE01" at (0, 150) and "/gallery/2" at (150, 0);
\* coordinates in half pixels.  What the post pages render stays free.
ScenarioGrid ==
  <<Anchor(X_album, 0, 0, TRUE, TRUE),
    Anchor(X_image7, 0, 300, TRUE, TRUE),
    Anchor(X_gallery, 300, 0, TRUE, TRUE)>>

ScenarioInit ==
  /\ pc = "setup"
  /\ dry_run = TRUE
  /\ max_to_process = 3
  /\ processed = 0
  /\ seen_heights = {}
  /\ last_h = 0
  /\ links = <<>>
  /\ idx = 0
  /\ location = "none"
  /\ scroll = "top"
  /\ dom = <<>>
  /\ dirty = FALSE
  /\ clicks = <<>>
  /\ image_count = 0
  /\ confirmed = FALSE
  /\ outcome = NoOutcome
  /\ browser = "none"
  /\ context = "none"
  /\ closes = {}
  /\ reported = -1
  /\ exitKind = "none"
  /\ anchors = <<>>

ScenarioExtract == ExtractFrom({ScenarioGrid})

\* the steps of main() and delete_one() a run on this grid can take: it has
\* no empty extraction and no link for the other/menu branch
ScenarioNext ==
  \/ CheckStorage
  \/ Launch
  \/ NewContext
  \/ NewPage
  \/ EnterGrid
  \/ WhileTest
  \/ ScenarioExtract
  \/ ObservePass
  \/ CallDriver
  \/ ImgDelete
  \/ ImgConfirm
  \/ AlbDelete
  \/ AlbConfirm
  \/ Count
  \/ NavBack
  \/ CapCheck
  \/ Done
  \/ ProbeError
  \/ KeyboardInterruptInTry
  \/ CloseContext
  \/ CloseBrowser

ScenarioSpec == ScenarioInit /\ [][ScenarioNext]_vars

\* ================================================================== claims
\* labels of the controls that commit a deletion
W_DeletePostAll == <<"Delete", "Post", "and", "Images">>
IrreversibleControls ==
  {W_YesDeleteIt, W_DeletePostOnly, W_DeletePostCap, W_DeletePostAll,
   W_DeleteFromAccount}

\* C1: in a dry run, whatever the kind of the post and whatever the page
\* shows, every real click of a driver is either the click that opens the
\* image confirmation dialog or the click on its cancel control, and none
\* lands on a control that commits a deletion.
C1_DryRunNeverConfirms ==
  dry_run =>
    \A k \in 1..Len(clicks) :
       /\ clicks[k].stage \in {"img_delete", "img_cancel"}
       /\ clicks[k].ctl \notin IrreversibleControls

\* a dry run of the image driver has opened the dialog and cancelled it
C1_Witness ==
  /\ dry_run
  /\ pc = "count"
  /\ Len(clicks) = 2
  /\ clicks[1].stage = "img_delete"
  /\ clicks[2].stage = "img_cancel"

\* the link delete_one was last called with is an album link and the call
\* has returned
AlbumReturned ==
  /\ pc \in {"count", "nav", "capcheck"}
  /\ idx \in 1..Len(links)
  /\ Classify(links[idx].href) = "album"

\* C2: every outcome returned for an album link is (true, 0) or (false, 0),
\* whatever the number of images detected and in dry and live runs alike.
C2_AlbumOutcomeZero ==
  AlbumReturned =>
    outcome \in {[ok |-> TRUE, n |-> 0], [ok |-> FALSE, n |-> 0]}

\* a live album ungroup succeeded on an album where two images were detected
C2_Witness ==
  /\ AlbumReturned
  /\ pc = "count"
  /\ ~dry_run
  /\ image_count = 2
  /\ outcome = [ok |-> TRUE, n |-> 0]

\* C3 (as claimed): in a live run no strategy of the album confirmation stage
\* activates the "delete everything" choice of the dialog.
C3_NeverDeleteEverything ==
  ~dry_run =>
    \A k \in 1..Len(clicks) :
       clicks[k].stage = "alb_confirm" => clicks[k].ctl # W_DeletePostAll

\* positions the run can be at once the cap is reached, in the order the
\* code goes through them
Rank(p) ==
  CASE p = "nav" -> 8
    [] p = "capcheck" -> 7
    [] p = "observe_pass" -> 6
    [] p = "while" -> 5
    [] p = "done" -> 4
    [] p = "finally" -> 3
    [] p = "close_browser" -> 2
    [] p = "exit" -> 1
    [] OTHER -> 100

\* C4: processed never decreases; once processed >= max_to_process the run
\* is at a position after the driver call and every further step moves it
\* strictly closer to the exit, so no driver is invoked and the run ends.
C4_MonotoneAndCapStops ==
  [][/\ processed' >= processed
     /\ (processed' >= max_to_process) => (Rank(pc') <= 8)
     /\ (processed >= max_to_process) => (Rank(pc') < Rank(pc))]_vars

\* the cap was reached while links of the pass were still unprocessed, and
\* the loop has ended
C4_Witness ==
  /\ pc = "done"
  /\ processed >= max_to_process
  /\ idx < Len(links)

\* C5 (as claimed): the loop ends only with processed >= max_to_process or
\* after an empty extraction whose scroll height had been seen before.
C5_TwoExitsOnly ==
  pc = "done" =>
    \/ processed >= max_to_process
    \/ (links = <<>> /\ last_h \in seen_heights)

\* C5 (amended): the loop ends only with processed >= max_to_process, or
\* with a scroll height seen before that was observed either after an empty
\* extraction or after a pass that went through every extracted link.
C5_ThreeExits ==
  pc = "done" =>
    \/ processed >= max_to_process
    \/ (last_h \in seen_heights /\ links = <<>>)
    \/ (last_h \in seen_heights /\ links # <<>> /\ idx = Len(links))

\* the loop has ended below the cap right after a pass over extracted links
C5_Witness ==
  /\ pc = "done"
  /\ processed < max_to_process
  /\ links # <<>>
  /\ idx = Len(links)
  /\ last_h \in seen_heights

\* C6: between the return of a driver and the next driver call, extraction
\* or height observation the page is back on the grid and scrolled to the
\* top; drivers, extractions and observations only ever start on the grid.
C6_BackToGrid ==
  /\ (pc \in {"capcheck", "observe_pass"} \/ (pc = "call" /\ idx > 1))
       => (location = "grid" /\ scroll = "top")
  /\ (pc \in {"extract", "observe_empty", "call"}) => (location = "grid")

\* a failed link has been followed by the navigation back to the grid
C6_Witness ==
  /\ pc = "capcheck"
  /\ outcome = Failed
  /\ location = "grid"
  /\ scroll = "top"

\* C7: a (false, 0) outcome is counted as one unit and, below the cap with
\* links left in the pass, the loop calls the driver for the next link; only
\* a keyboard interrupt can come in between.
C7_FailureContinues ==
  [][/\ (pc = "count" /\ outcome = Failed)
          => \/ (pc' = "nav" /\ processed' = processed + 1)
             \/ exitKind' = "interrupt"
     /\ (pc = "capcheck" /\ outcome = Failed /\ processed < max_to_process
           /\ idx < Len(links))
          => \/ (pc' = "call" /\ idx' = idx + 1 /\ links' = links)
             \/ exitKind' = "interrupt"]_vars

\* after a failed first link the driver is about to be called for the second
C7_Witness ==
  /\ pc = "call"
  /\ idx = 2
  /\ outcome = Failed
  /\ processed = 1

\* C8 (as claimed): a run that ends after the context was opened has
\* attempted to close both the context and the browser.
C8_AlwaysCloses ==
  (pc = "exit" /\ context # "none") => closes = {"context", "browser"}

\* C9: a keyboard interrupt in the loop leads straight to the finally block
\* with the count reported equal to processed at that moment; afterwards
\* nothing but the two close() calls happens and both are attempted.
C9_InterruptStops ==
  [][/\ (exitKind # "interrupt" /\ exitKind' = "interrupt")
          => (pc \in TryPcs /\ pc' = "finally" /\ reported' = processed
              /\ processed' = processed)
     /\ (exitKind = "interrupt")
          => (pc' \in {"close_browser", "exit"} /\ reported' = reported
              /\ processed' = processed /\ exitKind' = "interrupt")
     /\ (exitKind' = "interrupt" /\ pc' = "exit")
          => (closes' = {"context", "browser"})]_vars

\* the run was interrupted after one link, reported 1 and cleaned up
C9_Witness ==
  /\ exitKind = "interrupt"
  /\ pc = "exit"
  /\ reported = 1
  /\ processed = 1
  /\ closes = {"context", "browser"}

\* C10: processed changes only when a link is counted, and then by
\* images_count when that is nonzero and by 1 otherwise.
C10_Accumulation ==
  [][/\ (processed' # processed) => (pc = "count" /\ pc' = "nav")
     /\ (pc = "count" /\ pc' = "nav")
          => processed' = processed + (IF outcome.n # 0 THEN outcome.n ELSE 1)]_vars

\* the first link of the run was an album ungrouped with (true, 0) and
\* processed went from 0 to 1
C10_Witness ==
  /\ pc = "nav"
  /\ idx = 1
  /\ seen_heights = {}
  /\ outcome = [ok |-> TRUE, n |-> 0]
  /\ processed = 1

\* C11: when an empty extraction is followed by a scroll height equal to the
\* one observed just before, the loop ends; once the loop has ended nothing
\* but the summary and the cleanup follows, so no link reaches a driver.
C11_EqualHeightsStop ==
  [][/\ (pc = "observe_empty" /\ pc' \in {"while", "done"} /\ last_h' = last_h)
          => pc' = "done"
     /\ (pc \in {"done", "finally", "close_browser", "exit"})
          => pc' \in {"finally", "close_browser", "exit"}]_vars

\* the loop ended below the cap on an empty extraction, every height
\* observed in the run having been the same
C11_Witness ==
  /\ pc = "done"
  /\ links = <<>>
  /\ seen_heights = {last_h}
  /\ processed < max_to_process

\* C12 (as claimed): after an empty extraction a scroll height different
\* from the one last observed makes the loop scroll to the bottom and go on.
C12_ChangedHeightContinues ==
  [][(pc = "observe_empty" /\ pc' \in {"while", "done"} /\ last_h' # last_h)
        => (pc' = "while" /\ scroll' = "bottom")]_vars

\* C12 (amended): after an empty extraction a scroll height never observed
\* before in the run is recorded, the page is scrolled to the bottom and the
\* extraction runs again; a height observed at any earlier time, the last
\* one or not, ends the loop.
C12_NewHeightContinues ==
  [][/\ (pc = "observe_empty" /\ pc' \in {"while", "done"} /\ last_h' \notin seen_heights)
          => (pc' = "while" /\ scroll' = "bottom"
              /\ seen_heights' = seen_heights \cup {last_h'})
     /\ (pc = "observe_empty" /\ pc' \in {"while", "done"} /\ last_h' \in seen_heights)
          => pc' = "done"
     /\ (pc = "while" /\ processed < max_to_process)
          => pc' \in {"extract", "finally"}]_vars

\* two empty extractions met two new heights and the extraction runs again
C12_Witness ==
  /\ pc = "extract"
  /\ links = <<>>
  /\ Cardinality(seen_heights) = 2
  /\ scroll = "bottom"
  /\ processed = 0

Returned == pc \in {"for"} \cup BranchPcs

\* the link the branch test was last applied to
Branched == pc \in BranchPcs /\ idx \in 1..Len(links)

\* s comes no later than t in (round(y), round(x)) order
KeyLeq(s, t) ==
  \/ Round(s.y) < Round(t.y)
  \/ (Round(s.y) = Round(t.y) /\ Round(s.x) <= Round(t.x))

\* C14 (as claimed): every href starting with "/a/" or "/gallery/" is taken
\* to the album branch, whatever else it contains.
C14_AlbumPrefixFirst ==
  (Branched /\ (StartsWith(links[idx].href, Str_a)
                \/ StartsWith(links[idx].href, Str_gallery)))
    => pc = "alb_delete"

\* C15: an href without album prefix is taken to the image branch exactly
\* when it contains "/image/" or its last path segment has 7 characters, and
\* to the other/menu branch otherwise.
C15_ImageShape ==
  (Branched /\ ~StartsWith(links[idx].href, Str_a)
            /\ ~StartsWith(links[idx].href, Str_gallery))
    => /\ pc \in {"img_delete", "oth_menu"}
       /\ (pc = "img_delete") <=>
            (Contains(links[idx].href, Str_image) \/ LastSegLen(links[idx].href) = 7)

\* "/image/xyz", whose last segment has 3 characters, went to the image branch
C15_Witness ==
  /\ Branched
  /\ links[idx].href = X_imagePath
  /\ pc = "img_delete"

\* C16: the list returned by the extractor is non-decreasing in
\* (round(y), round(x)).
C16_Sorted ==
  Returned =>
    \A i \in 1..Len(links) : \A j \in 1..Len(links) :
       i < j => KeyLeq(links[i], links[j])

\* a link at y = 0.5, x = 0 located after a link at y = 0, x = 300 is
\* returned before it: both are on rounded row 0
C16_Witness ==
  /\ pc = "for"
  /\ Len(anchors) = 2
  /\ anchors[1].raw = X_imagePath
  /\ anchors[2].raw = X_albumF
  /\ Len(links) = 2
  /\ links[1].href = X_album /\ links[1].y = 1 /\ links[1].x = 0
  /\ links[2].href = X_imagePath /\ links[2].y = 0

\* C17: the returned hrefs carry no query string or fragment and are
\* pairwise different, and each link has the position of an anchor of its
\* href that no visible boxed anchor of the same href precedes in
\* (round(y), round(x)) order.
C17_Dedupe ==
  Returned =>
    /\ \A i \in 1..Len(links) : \A j \in 1..Len(links) :
          i # j => links[i].href # links[j].href
    /\ \A i \in 1..Len(links) : \A c \in 1..Len(links[i].href) :
          links[i].href[c] \notin {"?", "#"}
    /\ \A i \in 1..Len(links) :
          /\ \E k \in 1..Len(anchors) :
                /\ NormalizeHref(anchors[k].raw) = links[i].href
                /\ anchors[k].x = links[i].x /\ anchors[k].y = links[i].y
          /\ \A k \in 1..Len(anchors) :
                (anchors[k].vis /\ anchors[k].box
                   /\ NormalizeHref(anchors[k].raw) = links[i].href)
                  => KeyLeq(links[i], anchors[k])

\* "/a/1?s=1" at x = 150 located before "/a/1" at x = 0: one link "/a/1" is
\* returned, with the position of the left one
C17_Witness ==
  /\ pc = "for"
  /\ Len(anchors) = 2
  /\ anchors[1].raw = X_albumQ /\ anchors[1].x = 300
  /\ anchors[2].raw = X_album /\ anchors[2].x = 0
  /\ links = <<[href |-> X_album, x |-> 0, y |-> 0]>>

\* C18: every returned href matches the post-link pattern, starts with no
\* disallowed prefix, and is the href of a visible anchor with a bounding
\* box at the returned position.
C18_OnlyPostLinks ==
  Returned =>
    \A i \in 1..Len(links) :
       /\ POST_HREF_PAT(links[i].href)
       /\ \A p \in BAD_PREFIXES : ~StartsWith(links[i].href, p)
       /\ \E k \in 1..Len(anchors) :
             /\ anchors[k].vis
             /\ anchors[k].box
             /\ NormalizeHref(anchors[k].raw) = links[i].href
             /\ anchors[k].x = links[i].x /\ anchors[k].y = links[i].y

\* of three anchors, a hidden one and a "/user/..." one were dropped
C18_Witness ==
  /\ pc = "for"
  /\ Len(anchors) = 3
  /\ Len(links) = 1
  /\ \E k \in 1..3 : ~anchors[k].vis
  /\ \E k \in 1..3 : anchors[k].raw = X_user

\* C19 (as claimed): "/randomPath123" is never returned by the extractor.
C19_RandomPathExcluded ==
  \A i \in 1..Len(links) : links[i].href # X_random

\* C19 (amended): a visible boxed anchor with href "/randomPath123" is
\* returned by the extractor, and the link is taken to the other/menu branch.
C19_RandomPathIsOther ==
  /\ (Returned /\ \E k \in 1..Len(anchors) :
         anchors[k].raw = X_random /\ anchors[k].vis /\ anchors[k].box)
       => \E i \in 1..Len(links) : links[i].href = X_random
  /\ (Branched /\ links[idx].href = X_random) => pc = "oth_menu"

\* "/randomPath123" was returned and taken to the other/menu branch
C19_Witness ==
  /\ Branched
  /\ links[idx].href = X_random
  /\ pc = "oth_menu"

\* hrefs of the extracted list, in order
LinkHrefs == [k \in 1..Len(links) |-> links[k].href]

C21_NoScrollAfterCap ==
  [][processed >= max_to_process => (scroll' = "bottom" => scroll = "bottom")]_vars

\* C21 (amended): once processed has reached the cap no link is handed to a
\* driver and the grid is not queried again, but the height observation of
\* lines 1013-1018 still runs: a height seen before leaves the loop without
\* scrolling, a new height is recorded and the page is scrolled to the bottom
\* once, and the while test of line 972 then leaves the loop.
C21_OneScrollAfterCap ==
  [][processed >= max_to_process =>
       /\ pc \in {"capcheck", "observe_pass", "while", "done"} =>
            pc' \notin {"extract", "call"}
       /\ pc = "capcheck" => pc' \in {"observe_pass", "finally"} /\ scroll' = scroll
       /\ pc = "observe_pass" /\ pc' # "finally" =>
            IF last_h' \in seen_heights
            THEN pc' = "done" /\ scroll' = scroll
            ELSE pc' = "while" /\ scroll' = "bottom"
       /\ pc = "while" => pc' \in {"done", "finally"} /\ scroll' = scroll
       /\ pc \in {"done", "finally", "close_browser", "exit"} => scroll' = scroll]_vars

\* the cap was reached, the page was scrolled to the bottom afterwards and the
\* loop was left
C21_Witness ==
  /\ pc = "done"
  /\ processed >= max_to_process
  /\ scroll = "bottom"
  /\ idx >= 1

\* delete_one has returned for a link of the given kind
ReturnedFor(kind) ==
  /\ pc = "count"
  /\ idx \in 1..Len(links)
  /\ Classify(links[idx].href) = kind

\* the stages of the real clicks of the current call of delete_one, in order
Stages == [k \in 1..Len(clicks) |-> clicks[k].stage]

\* C22: in a live run the image driver returns (true, 1) only after a click
\* on a "Delete image" button followed by a click on a "Yes, Delete It"
\* button; otherwise it returns (false, 0), and then it has clicked nothing or
\* the "Delete image" button only.
C22_LiveImageTwoClicks ==
  ~dry_run /\ ReturnedFor("image") =>
    IF outcome = DeletedOne
    THEN /\ Stages = <<"img_delete", "img_confirm">>
         /\ ContainsCI(clicks[1].ctl, W_DeleteImage)
         /\ ContainsCI(clicks[2].ctl, W_YesDeleteIt)
    ELSE /\ outcome = Failed
         /\ \/ Stages = <<>>
            \/ Stages = <<"img_delete">> /\ ContainsCI(clicks[1].ctl, W_DeleteImage)

\* a live run of the image driver opened the dialog and could not confirm
C22_Witness ==
  /\ ~dry_run
  /\ ReturnedFor("image")
  /\ outcome = Failed
  /\ Stages = <<"img_delete">>

\* C23 (as claimed): a driver whose stage found nothing to click does not
\* report success: a successful dry run of the image driver has clicked the
\* cancel control, a successful live run of the album driver has clicked a
\* confirmation of the dialog, and a successful live run on the menu path has
\* clicked a confirmation button.
C23_FailedStageFails ==
  pc = "count" /\ idx \in 1..Len(links) /\ outcome.ok =>
    /\ dry_run /\ Classify(links[idx].href) = "image" =>
         \E k \in 1..Len(clicks) : clicks[k].stage = "img_cancel"
    /\ ~dry_run /\ Classify(links[idx].href) = "album" =>
         \E k \in 1..Len(clicks) : clicks[k].stage = "alb_confirm"
    /\ ~dry_run /\ Classify(links[idx].href) = "other" =>
         \E k \in 1..Len(clicks) : clicks[k].stage = "confirm"

\* C24 (as claimed): a live run of the album driver reports (true, 0) only
\* after a click on the "Delete post" control followed by a click on a
\* confirmation of the dialog.
C24_AlbumNeedsConfirmation ==
  ~dry_run /\ ReturnedFor("album") /\ outcome = [ok |-> TRUE, n |-> 0] =>
    Stages = <<"alb_delete", "alb_confirm">>

\* what the verification of lines 875-924 may observe
VerifyInputs ==
  [c1 : BOOLEAN, u1 : BOOLEAN, v1 : BOOLEAN, g : {"ok", "timeout", "error"},
   c2 : BOOLEAN, u2 : BOOLEAN]

\* the outcome of the verification on the observation i
VerifyOn(i) == VerifyOutcome(confirmed, TRUE, i.c1, i.u1, i.v1, i.g, i.c2, i.u2)

\* the observation i holds a sign of removal: the page text or a changed URL
\* (looked at only when no confirmation was clicked), or, after the final
\* navigation succeeded, a not-found text or a URL other than the post's
PositiveSignal(i) ==
  \/ ~confirmed /\ (i.c1 \/ i.u1)
  \/ i.g = "ok" /\ (i.c2 \/ ~i.u2)

\* C25 (as claimed): the verification reports (true, 1) only on a positive
\* signal; without one, a failed final navigation included, it reports
\* (false, 0).
C25_SuccessNeedsSignal ==
  pc = "verify" =>
    \A i \in VerifyInputs : ~PositiveSignal(i) => VerifyOn(i) = Failed

\* C25 (amended): the verification reports (false, 0) only when the final
\* navigation succeeded and the page shows no not-found text under the post's
\* URL (and, if no confirmation was clicked, neither the page text nor a
\* redirect to a valid page had indicated removal before); in every other
\* case, a timeout or an error of the final navigation included, it reports
\* (true, 1).
C25_FailsOnlyIfStillThere ==
  pc = "verify" =>
    \A i \in VerifyInputs :
       VerifyOn(i) =
         IF /\ confirmed \/ ~(i.c1 \/ (i.u1 /\ i.v1))
            /\ i.g = "ok"
            /\ ~i.c2
            /\ i.u2
         THEN Failed
         ELSE DeletedOne

\* a live run on the menu path clicked "Delete from account", found no
\* confirmation button and was verified as deleted
C25_Witness ==
  /\ ~dry_run
  /\ ReturnedFor("other")
  /\ ~confirmed
  /\ outcome = DeletedOne
  /\ Stages = <<"oth_menu", "oth_item", "oth_account">>

\* C26 (as claimed): a dry run that located every control reports what a
\* successful live run reports: (true, 1) from the image driver, (true, 0)
\* from the album driver, (true, 1) from the menu path.
C26_DryRunAsIfSuccessful ==
  [][dry_run /\ pc' = "count" =>
       /\ pc = "img_confirm" => outcome' = DeletedOne
       /\ pc = "alb_confirm" => outcome' = [ok |-> TRUE, n |-> 0]
       /\ pc = "verify" /\ confirmed => outcome' = DeletedOne]_vars

\* C27 (as claimed): a navigation to the grid or to a post never ends the
\* run: unless the user interrupts, the loop goes on with the driver of the
\* current link, respectively with the grid.
C27_NavigationFailureNotFatal ==
  [][exitKind' # "interrupt" =>
       /\ pc = "call" => pc' = FirstStage(links[idx].href)
       /\ pc = "enter" => pc' = "while"
       /\ pc = "nav" => pc' = "capcheck"]_vars

\* C28: when the storage file is missing the run ends at once: no browser
\* and no context were created, no page was navigated, no link extracted and
\* no driver called.
C28_RefusesWithoutStorage ==
  exitKind = "refused" =>
    /\ pc = "exit"
    /\ browser = "none"
    /\ context = "none"
    /\ closes = {}
    /\ location = "none"
    /\ links = <<>>
    /\ idx = 0
    /\ clicks = <<>>
    /\ outcome = NoOutcome
    /\ processed = 0
    /\ reported = -1

\* the run was refused
C28_Witness ==
  /\ exitKind = "refused"
  /\ pc = "exit"

\* C29: the menu path runs its stages in order: the menu entry is looked for
\* only after the overflow menu was opened, the dialog button only after the
\* menu entry was selected, the generic confirmation only after "Delete from
\* account" was chosen (in a dry run: after the control was found visible);
\* when the menu is not opened or the entry not selected the driver returns
\* (false, 0) and clicks nothing more.
C29_StagesInOrder ==
  [][/\ pc' # pc /\ pc' = "oth_item" =>
          /\ pc = "oth_menu"
          /\ IF dry_run THEN OpenMenu(dom', TRUE, TRUE).ret
             ELSE Stages' = <<"oth_menu">>
     /\ pc' # pc /\ pc' = "oth_account" =>
          /\ pc = "oth_item"
          /\ IF dry_run THEN TryAll(delete_image_selectors, dom', TRUE, TRUE).ret
             ELSE Stages' = <<"oth_menu", "oth_item">>
     /\ pc' # pc /\ pc' = "confirm" =>
          /\ pc = "oth_account"
          /\ IF dry_run THEN TryAll(delete_from_account_selectors, dom', TRUE, TRUE).ret
             ELSE Stages' = <<"oth_menu", "oth_item", "oth_account">>
     /\ pc = "oth_menu" /\ pc' = "count" => outcome' = Failed /\ clicks' = <<>>
     /\ pc = "oth_item" /\ pc' = "count" => outcome' = Failed /\ clicks' = clicks]_vars

\* a live run opened the menu, could not select the entry and returned
C29_Witness ==
  /\ ~dry_run
  /\ ReturnedFor("other")
  /\ outcome = Failed
  /\ Stages = <<"oth_menu">>

\* C30 (as claimed): in a dry run the first link of a new pass, which is the
\* next one handed to a driver, was not handed to a driver in the pass before.
C30_NoHrefTwice ==
  [][dry_run /\ pc = "extract" /\ pc' = "call" =>
       \A k \in 1..idx : links[k].href # links'[1].href]_vars

\* the outcomes delete_one returns for a link of the given kind (docstring of
\* lines 555-560 and the return statements of each branch)
DriverOutcomes(kind) ==
  IF kind = "album" THEN {AlbumOutcome(TRUE), AlbumOutcome(FALSE)}
  ELSE {DeletedOne, Failed}

\* C31: processed never exceeds the cap: the step that counts a link adds
\* exactly 1 and no other step (an interrupt included) changes processed, the cap test follows every
\* counted link, delete_one is called, and runs, only while processed is
\* below the cap, and what it returns is (true, 1), (true, 0) or (false, 0).
C31_ProcessedWithinCap ==
  [][/\ processed' <= max_to_process
     /\ IF pc = "count" /\ pc' = "nav"
        THEN processed' = processed + 1
        ELSE processed' = processed
     /\ pc = "count" => pc' \in {"nav", "finally"}
     /\ pc = "nav" => pc' \in {"capcheck", "finally"}
     /\ pc' = "call" => pc \in {"extract", "capcheck"} /\ processed < max_to_process
     /\ pc' \in {"call"} \cup DriverPcs => processed' < max_to_process
     /\ pc' = "count" => outcome' \in DriverOutcomes(Classify(links[idx].href))]_vars

\* the second link of a pass brought processed to the cap
C31_Witness ==
  /\ pc = "capcheck"
  /\ idx >= 2
  /\ processed = max_to_process

\* ------------------------------------------------------------- termination
\* delete_one taken as one step of the loop (lines 986-987): the navigation,
\* then one of the outcomes of DriverOutcomes, its locals gone on return
DeleteOne ==
  /\ pc = "call"
  /\ \E r \in NavResults :
       IF safe_goto(r)
       THEN /\ location' = "post"
            /\ scroll' = "post"
            /\ \E o \in DriverOutcomes(Classify(links[idx].href)) : outcome' = o
            /\ pc' = "count"
            /\ exitKind' = exitKind
       ELSE RaiseInTry /\ outcome' = NoOutcome /\ UNCHANGED pageVars
  /\ dom' = <<>>
  /\ dirty' = FALSE
  /\ clicks' = <<>>
  /\ image_count' = 0
  /\ confirmed' = FALSE
  /\ UNCHANGED <<anchors, cfgVars, loopVars, sessVars, reported>>

LoopNext ==
  \/ CheckStorage
  \/ Launch
  \/ NewContext
  \/ NewPage
  \/ EnterGrid
  \/ WhileTest
  \/ Extract
  \/ ObserveEmpty
  \/ ObservePass
  \/ DeleteOne
  \/ Count
  \/ NavBack
  \/ CapCheck
  \/ Done
  \/ ProbeError
  \/ KeyboardInterruptInTry
  \/ CloseContext
  \/ CloseBrowser

\* The program is sequential and every wait in it has a timeout (lines
\* 374-380, 455-470): a step that is possible is eventually taken.
LoopSpec == Init /\ [][LoopNext]_vars /\ WF_vars(LoopNext)

\* C32: the run ends. seen_heights only grows; a height observation that
\* goes back to the while test has added a new height, every link of a pass
\* increases processed, and a pass with links counts at least one of them
\* before the while test is reached again.
C32_LoopTerminates ==
  /\ <>(pc = "exit")
  /\ [][/\ seen_heights \subseteq seen_heights'
        /\ pc \in {"observe_empty", "observe_pass"} /\ pc' = "while" =>
             /\ last_h' \notin seen_heights
             /\ seen_heights' = seen_heights \cup {last_h'}
        /\ pc = "count" /\ pc' = "nav" => processed' > processed
        /\ pc = "extract" => pc' \in {"call", "observe_empty", "finally"}
        /\ pc' = "observe_pass" => pc = "capcheck"
        /\ pc' = "capcheck" => pc = "nav"]_vars

\* the loop ran a pass without links and a pass with a link, observed two
\* heights, and the run ended after the summary
C32_Witness ==
  /\ pc = "exit"
  /\ exitKind = "normal"
  /\ processed >= 1
  /\ Cardinality(seen_heights) >= 2

====
